---- MODULE Spec2Model ----
(***************************************************************************)
(* A model of openvpn-auth-hook: the three libc hooks (fopen, fgets,       *)
(* fclose) of src/src/lib.rs, the stream registry of src/src/state.rs,     *)
(* the run-time parameters of src/src/params.rs and the encryption crate   *)
(* of src/encryption/src/lib.rs, driven by the build script src/build.rs.  *)
(*                                                                         *)
(* Bytes are the integers 0..255, strings are sequences of bytes.          *)
(***************************************************************************)
EXTENDS Integers, Sequences, FiniteSets, TLC

(***************************************************************************)
(* Bytes and results                                                       *)
(***************************************************************************)
NUL == 0
NL == 10

Ok(v) == [ok |-> TRUE, val |-> v]
Err(e) == [ok |-> FALSE, err |-> e, panic |-> FALSE]
\* a panic (unwrap, expect) instead of a result: it unwinds to the caller
Panic(e) == [ok |-> FALSE, err |-> e, panic |-> TRUE]

\* Option<T>
None == [some |-> FALSE]
Some(v) == [some |-> TRUE, val |-> v]

Min(a, b) == IF a <= b THEN a ELSE b
Max(a, b) == IF a >= b THEN a ELSE b

Take(s, k) == SubSeq(s, 1, Min(k, Len(s)))
Drop(s, k) == SubSeq(s, Min(k, Len(s)) + 1, Len(s))

RECURSIVE IndexOf(_, _, _)
\* first index >= i of byte b in s, or 0
IndexOf(s, b, i) ==
    IF i > Len(s) THEN 0
    ELSE IF s[i] = b THEN i
    ELSE IndexOf(s, b, i + 1)

\* the C string held by a buffer: the bytes before the first NUL
CStr(buf) ==
    LET z == IndexOf(buf, NUL, 1)
    IN  IF z = 0 THEN buf ELSE SubSeq(buf, 1, z - 1)

(***************************************************************************)
(* The hex crate: encode writes two lower-case digits per byte, decode     *)
(* accepts both cases and fails on odd length or on a non-digit.           *)
(***************************************************************************)
HexDigit(v) == IF v < 10 THEN 48 + v ELSE 87 + v

HexVal(c) ==
    IF c >= 48 /\ c <= 57 THEN c - 48
    ELSE IF c >= 97 /\ c <= 102 THEN c - 87
    ELSE IF c >= 65 /\ c <= 70 THEN c - 55
    ELSE -1

hex_encode(bytes) ==
    [i \in 1..(2 * Len(bytes)) |->
        IF i % 2 = 1 THEN HexDigit(bytes[(i + 1) \div 2] \div 16)
        ELSE HexDigit(bytes[i \div 2] % 16)]

HexPairs(s) ==
    [i \in 1..(Len(s) \div 2) |-> HexVal(s[2 * i - 1]) * 16 + HexVal(s[2 * i])]

hex_decode(s) ==
    IF Len(s) % 2 # 0 THEN Err("hex: odd number of digits")
    ELSE IF \E i \in 1..Len(s) : HexVal(s[i]) < 0
         THEN Err("hex: invalid character")
    ELSE Ok(HexPairs(s))

(***************************************************************************)
(* String::from_utf8: the well-formed byte sequences of UTF-8.             *)
(***************************************************************************)
IsCont(s, i) == i <= Len(s) /\ s[i] >= 128 /\ s[i] <= 191

RECURSIVE IsUtf8From(_, _)
IsUtf8From(s, i) ==
    IF i > Len(s) THEN TRUE
    ELSE LET b == s[i] IN
      IF b < 128 THEN IsUtf8From(s, i + 1)
      ELSE IF b >= 194 /\ b <= 223
           THEN IsCont(s, i + 1) /\ IsUtf8From(s, i + 2)
      ELSE IF b >= 224 /\ b <= 239
           THEN /\ IsCont(s, i + 1) /\ IsCont(s, i + 2)
                /\ (b = 224 => s[i + 1] >= 160)
                /\ (b = 237 => s[i + 1] <= 159)
                /\ IsUtf8From(s, i + 3)
      ELSE IF b >= 240 /\ b <= 244
           THEN /\ IsCont(s, i + 1) /\ IsCont(s, i + 2) /\ IsCont(s, i + 3)
                /\ (b = 240 => s[i + 1] >= 144)
                /\ (b = 244 => s[i + 1] <= 143)
                /\ IsUtf8From(s, i + 4)
      ELSE FALSE

String_from_utf8(bytes) ==
    IF IsUtf8From(bytes, 1) THEN Ok(bytes) ELSE Err("invalid utf-8 sequence")

\* CString::new: fails on an interior NUL byte
CString_new(bytes) ==
    IF IndexOf(bytes, NUL, 1) # 0
    THEN Err("nul byte found in provided data")
    ELSE Ok(bytes)

(***************************************************************************)
(* The state of the program and of what it runs in.                        *)
(***************************************************************************)
VARIABLES
    phase,          \* "build" | "built" | "run" | "build_failed" | "crypto"
    artifact,       \* whether the embedded constants are as built
    machineFiles,   \* the machine-id files: path -> content, or Missing
    idChanges,      \* how often the machine-id files were changed
    password,       \* BUILD_ARG_PASSWORD, the secret (bytes of a str)
    NONCE_HEX,      \* BUILD_ARG_NONCE_HEX, embedded by the build
    CIPHERTEXT_HEX, \* BUILD_ARG_CIPHERTEXT_HEX, embedded by the build
    buildId,        \* the machine identity the build read (history)
    environ,        \* the environment variable AUTH_FILE_PATH
    AUTH_FILE_PATH, \* the Lazy<Option<String>> of params.rs
    OPEN_FILES,     \* the registry: stream -> StreamState
    lock,           \* the holder of the OPEN_FILES mutex, or NoThread
    streams,        \* libc's streams: handle -> open stream, or Closed
    pc,             \* each thread's position
    frame,          \* each thread's current hook call: arguments and locals
    plaintext,      \* the encryption crate on its own: encrypt's argument
    sealed,         \* ... encrypt's result
    sealedId,       \* ... the machine identity encrypt read (history)
    opened,         \* ... decrypt's result
    openedId        \* ... the machine identity decrypt read (history)

vars == <<phase, artifact, machineFiles, idChanges, password, NONCE_HEX, CIPHERTEXT_HEX,
          buildId, environ, AUTH_FILE_PATH, OPEN_FILES, lock, streams, pc,
          frame, plaintext, sealed, sealedId, opened, openedId>>

(***************************************************************************)
(* The encryption crate (src/encryption/src/lib.rs).                       *)
(*                                                                         *)
(* SHA-256, HKDF and AES-256-GCM come from other crates.  They are         *)
(* modelled by a small keyed construction of the same shape: a digest, an  *)
(* extract-then-expand key derivation, and a stream cipher whose           *)
(* ciphertext carries an authentication tag over key, nonce and body.      *)
(***************************************************************************)
KEY_SIZE == 32
NONCE_SIZE == 12
TAG_SIZE == 16

\* 31^k modulo 251
RECURSIVE Pow31(_)
Pow31(k) ==
    IF k = 0 THEN 1
    ELSE LET h == Pow31(k \div 2)
         IN  (h * h * (IF k % 2 = 1 THEN 31 ELSE 1)) % 251

\* the polynomial digest of s: the sum of (s[i] + 1) * 31^(Len(s) - i)
RECURSIVE Poly(_)
Poly(s) ==
    IF Len(s) = 0 THEN 0
    ELSE IF Len(s) = 1 THEN (s[1] + 1) % 251
    ELSE LET m == Len(s) \div 2
         IN  (Poly(SubSeq(s, 1, m)) * Pow31(Len(s) - m)
                + Poly(SubSeq(s, m + 1, Len(s)))) % 251

Sha256(s) == (7 * Pow31(Len(s)) + Poly(s)) % 251

\* Hkdf::<Sha256>::new(None, ikm): extract with no salt
Hkdf_new(ikm) == <<Sha256(ikm)>>

\* hk.expand(info, &mut okm): okm has len bytes
Hkdf_expand(prk, info, len) ==
    [i \in 1..len |-> Sha256(prk \o info \o <<i>>)]

Keystream(key, nonce, i) == Sha256(key \o nonce \o <<i>>)

Tag(key, nonce, body) ==
    [j \in 1..TAG_SIZE |-> Sha256(key \o nonce \o body \o <<j, Len(body) % 256>>)]

\* cipher.encrypt(&nonce, plaintext)
Aes256Gcm_encrypt(key, nonce, pt) ==
    LET body == [i \in 1..Len(pt) |-> (pt[i] + Keystream(key, nonce, i)) % 256]
    IN  Ok(body \o Tag(key, nonce, body))

\* cipher.decrypt(nonce, ciphertext)
Aes256Gcm_decrypt(key, nonce, ct) ==
    IF Len(ct) < TAG_SIZE THEN Err("aead::Error")
    ELSE LET body == SubSeq(ct, 1, Len(ct) - TAG_SIZE)
             tag  == SubSeq(ct, Len(ct) - TAG_SIZE + 1, Len(ct))
         IN  IF tag # Tag(key, nonce, body) THEN Err("aead::Error")
             ELSE Ok([i \in 1..Len(body) |->
                        (body[i] + 256 - Keystream(key, nonce, i)) % 256])

\* the two variants of enum Error, by their Display text
Error_Io == "IO error obtaining the machine identifier"
Error_Cipher == "cipher error (opaque)"

\* a path of the file system: no file, or a file with its content
Missing == [exists |-> FALSE]
File(bytes) == [exists |-> TRUE, content |-> bytes]
MACHINE_ID_PATHS == <<"/etc/machine-id", "/var/lib/dbus/machine-id">>

\* BUILD_ARG_APP_ID, a hex string: "a1"
BUILD_ARG_APP_ID == <<97, 49>>

\* obfstr! yields the string it was given
obfstr(s) == s

\* hex::decode(..).expect("BUILD_ARG_APP_ID should be a valid hex string")
app_id ==
    LET r == hex_decode(obfstr(BUILD_ARG_APP_ID))
    IN  IF r.ok THEN r ELSE Panic("BUILD_ARG_APP_ID should be a valid hex string")

\* std::fs::read_to_string: the content, if it is UTF-8
read_to_string(path) ==
    IF ~machineFiles[path].exists THEN Err("No such file or directory")
    ELSE IF ~IsUtf8From(machineFiles[path].content, 1)
         THEN Err("stream did not contain valid UTF-8")
    ELSE Ok(machineFiles[path].content)

machine_id ==
    LET exists == {i \in 1..Len(MACHINE_ID_PATHS) :
                        machineFiles[MACHINE_ID_PATHS[i]].exists}
    IN  IF exists = {} THEN Err("no machine-id found")
        ELSE read_to_string(
                MACHINE_ID_PATHS[CHOOSE i \in exists : \A j \in exists : i <= j])

generate_key(appId, machineId) ==
    LET ikm  == appId
        info == machineId
        hk   == Hkdf_new(ikm)
    IN  Hkdf_expand(hk, info, KEY_SIZE)

\* a cipher keyed with the identity read at encryption, kept for later calls
create_cipher_cached ==
    LET id == IF sealedId.some THEN sealedId.val ELSE machine_id IN
    IF ~app_id.ok THEN app_id
    ELSE IF ~id.ok THEN Err(id.err)
    ELSE Ok(generate_key(app_id.val, id.val))

\* generate_key(&app_id(), machine_id()?.as_bytes()): app_id() runs first
create_cipher ==
    IF ~app_id.ok THEN app_id
    ELSE IF ~machine_id.ok THEN Err(machine_id.err)
    ELSE Ok(generate_key(app_id.val, machine_id.val))

\* an encrypt that returns the ciphertext without its last byte
encrypt_short(pt, rng) ==
    LET cipher == create_cipher IN
    IF ~cipher.ok THEN (IF cipher.panic THEN cipher ELSE Err(Error_Io))
    ELSE LET nonce == rng
             ciphertext == Aes256Gcm_encrypt(cipher.val, nonce, pt)
         IN  IF ~ciphertext.ok THEN Err(Error_Cipher)
             ELSE Ok(<<nonce, SubSeq(ciphertext.val, 1,
                                     Len(ciphertext.val) - 1)>>)

\* rng: the nonce that Aes256Gcm::generate_nonce(&mut OsRng) draws
encrypt(pt, rng) ==
    LET cipher == create_cipher IN
    IF ~cipher.ok THEN (IF cipher.panic THEN cipher ELSE Err(Error_Io))
    ELSE LET nonce == rng
             ciphertext == Aes256Gcm_encrypt(cipher.val, nonce, pt)
         IN  IF ~ciphertext.ok THEN Err(Error_Cipher)
             ELSE Ok(<<nonce, ciphertext.val>>)

\* a decrypt that reports every failure as Error::Cipher
decrypt_opaque(nonce, ciphertext) ==
    LET cipher == create_cipher IN
    IF ~cipher.ok THEN (IF cipher.panic THEN cipher ELSE Err(Error_Cipher))
    ELSE LET r == Aes256Gcm_decrypt(cipher.val, nonce, ciphertext)
         IN  IF ~r.ok THEN Err(Error_Cipher) ELSE r

\* a decrypt that unwraps the result of the cipher
decrypt_unwrap(nonce, ciphertext) ==
    LET cipher == create_cipher IN
    IF ~cipher.ok THEN Panic("called Result::unwrap() on an Err value")
    ELSE LET r == Aes256Gcm_decrypt(cipher.val, nonce, ciphertext)
         IN  IF ~r.ok THEN Panic("called Result::unwrap() on an Err value")
             ELSE r

decrypt(nonce, ciphertext) ==
    LET cipher == create_cipher IN
    IF ~cipher.ok THEN (IF cipher.panic THEN cipher ELSE Err(Error_Io))
    ELSE LET r == Aes256Gcm_decrypt(cipher.val, nonce, ciphertext)
         IN  IF ~r.ok THEN Err(Error_Cipher) ELSE r

(***************************************************************************)
(* params.rs: password_line                                                *)
(***************************************************************************)
\* the recovered secret without the newline that ends the line
password_line_bare ==
    LET nonce == hex_decode(NONCE_HEX) IN
    IF ~nonce.ok THEN nonce
    ELSE IF Len(nonce.val) # NONCE_SIZE
         THEN Err("Invalid nonce. Must be 12 bytes long.")
    ELSE LET ciphertext == hex_decode(CIPHERTEXT_HEX) IN
    IF ~ciphertext.ok THEN ciphertext
    ELSE LET pw == decrypt(nonce.val, ciphertext.val) IN
    IF ~pw.ok THEN pw
    ELSE LET str == String_from_utf8(pw.val) IN
    IF ~str.ok THEN str
    ELSE CString_new(str.val)

password_line ==
    LET nonce == hex_decode(NONCE_HEX) IN
    IF ~nonce.ok THEN nonce
    ELSE IF Len(nonce.val) # NONCE_SIZE
         THEN Err("Invalid nonce. Must be 12 bytes long.")
    ELSE LET ciphertext == hex_decode(CIPHERTEXT_HEX) IN
    IF ~ciphertext.ok THEN ciphertext
    ELSE LET pw == decrypt(nonce.val, ciphertext.val) IN
    IF ~pw.ok THEN pw
    ELSE LET str == String_from_utf8(pw.val) IN
    IF ~str.ok THEN str
    ELSE CString_new(str.val \o <<NL>>)

(***************************************************************************)
(* Bounds of the model.                                                    *)
(***************************************************************************)
MaxThreads == 2
MaxHandles == 2
MaxReads == 4       \* non-null reads of one stream that the model follows
MaxIdChanges == 1   \* changes of the machine-id files after the build
\* usize::MAX, scaled down to a width a run of the model reaches
USIZE_MAX == 3

Threads == 1..MaxThreads
NoThread == 0
Handles == 1..MaxHandles    \* the non-null FILE pointers
NULL == 0
Closed == [open |-> FALSE]
BufPtr == 1                 \* fgets' non-null result: the caller's buffer
EOF == -1
Filler == 63                \* what the caller's buffer holds before a read

(***************************************************************************)
(* state.rs: the registry.  OPEN_FILES is a function from the tracked      *)
(* streams to their StreamState.                                           *)
(***************************************************************************)
\* usize::wrapping_add: past usize::MAX the sum starts again at 0
wrapping_add(a, b) == (a + b) % (USIZE_MAX + 1)

\* usize::saturating_add
saturating_add(a, b) == Min(a + b, USIZE_MAX)

\* a registry whose entries start at 1: the open counted as a read
StreamState_new_one == [lines |-> 1]

StreamState_new == [lines |-> 0]

StreamState_inc(state) == [lines |-> saturating_add(state.lines, 1)]

\* an insert that keeps the value of a key it already holds
HashMap_insert_keep(map, key, value) ==
    [map   |-> [k \in DOMAIN map \cup {key} |->
                    IF k \in DOMAIN map THEN map[k] ELSE value],
     prev  |-> IF key \in DOMAIN map THEN Some(map[key]) ELSE None]

\* HashMap::insert: the new map and the previous value
HashMap_insert(map, key, value) ==
    [map   |-> [k \in DOMAIN map \cup {key} |-> IF k = key THEN value ELSE map[k]],
     prev  |-> IF key \in DOMAIN map THEN Some(map[key]) ELSE None]

HashMap_remove(map, key) == [k \in DOMAIN map \ {key} |-> map[k]]

\* the part of State::add that runs under the lock
State_add(map, stream) == HashMap_insert(map, stream, StreamState_new)

\* an inc_lines that starts an entry for a stream it does not know
State_inc_lines_upsert(map, stream) ==
    IF stream \in DOMAIN map
    THEN LET st == StreamState_inc(map[stream])
         IN  [map |-> [map EXCEPT ![stream] = st], ret |-> Some(st.lines)]
    ELSE LET st == StreamState_inc(StreamState_new)
         IN  [map |-> HashMap_insert(map, stream, st).map,
              ret |-> Some(st.lines)]

\* one counter for all tracked streams: every entry moves with each read
State_inc_lines_shared(map, stream) ==
    IF stream \in DOMAIN map
    THEN LET all == [k \in DOMAIN map |-> StreamState_inc(map[k])]
         IN  [map |-> all, ret |-> Some(all[stream].lines)]
    ELSE [map |-> map, ret |-> None]

\* State::inc_lines under the lock: the new map and the Option<usize>
State_inc_lines(map, stream) ==
    IF stream \in DOMAIN map
    THEN LET st == StreamState_inc(map[stream])
         IN  [map |-> [map EXCEPT ![stream] = st], ret |-> Some(st.lines)]
    ELSE [map |-> map, ret |-> None]

\* a remove that drops only the entries whose password line was read
State_remove_used(map, stream) ==
    IF stream \in DOMAIN map /\ map[stream].lines >= 2
    THEN HashMap_remove(map, stream)
    ELSE map

\* a close that leaves the entry of the stream in the registry
State_remove_forgets(map, stream) == map

State_remove(map, stream) == HashMap_remove(map, stream)

(***************************************************************************)
(* lib.rs: the hooks.                                                      *)
(***************************************************************************)
PASSWORD_LINE_NUMBER == 2

NoFrame ==
    [fn |-> "none", filename |-> "", mode |-> "", stream |-> NULL, n |-> 0,
     buf |-> <<>>, orig |-> <<>>, response |-> NULL, cnt |-> None,
     prev |-> None, pw |-> None, mid |-> None, diags |-> <<>>, calls |-> <<>>]

\* n as usize: a negative c_int wraps around to the top of usize
available_space_cast(n) == IF n >= 0 THEN n ELSE USIZE_MAX + 1 + n

\* n.try_into().unwrap_or(0): a negative c_int is no usize
available_space(n) == IF n >= 0 THEN n ELSE 0

\* the capacity test off by one: new_line_len < available_space
replace_line_strict(buf, n, new_line) ==
    LET new_line_len == Len(new_line) + 1
        src == new_line \o <<NUL>>
    IN  IF new_line_len < available_space(n)
        THEN [buf |-> [i \in 1..Len(buf) |->
                          IF i <= new_line_len THEN src[i] ELSE buf[i]],
              diags |-> <<>>]
        ELSE [buf |-> buf,
              diags |-> <<[level |-> "WARNING",
                           msg |-> "Replacement line is too long to fit in the buffer",
                           new_line_len |-> new_line_len,
                           available_space |-> available_space(n)]>>]

\* replace_line: the buffer afterwards and the diagnostics written
replace_line(buf, n, new_line) ==
    LET new_line_len == Len(new_line) + 1
        src == new_line \o <<NUL>>
    IN  IF new_line_len <= available_space(n)
        THEN [buf |-> [i \in 1..Len(buf) |->
                          IF i <= new_line_len THEN src[i] ELSE buf[i]],
              diags |-> <<>>]
        ELSE [buf |-> buf,
              diags |-> <<[level |-> "WARNING",
                           msg |-> "Replacement line is too long to fit in the buffer",
                           new_line_len |-> new_line_len,
                           available_space |-> available_space(n)]>>]

\* the original fgets (man 3 fgets, quoted in lib.rs): at most n-1 bytes of
\* the stream, up to and including a newline, then a NUL
Functions_fgets(buf, n, content, pos) ==
    IF n <= 0 THEN [ret |-> NULL, buf |-> buf, pos |-> pos]
    ELSE IF n = 1
         THEN [ret |-> BufPtr, buf |-> <<NUL>> \o Tail(buf), pos |-> pos]
    ELSE IF pos >= Len(content) THEN [ret |-> NULL, buf |-> buf, pos |-> pos]
    ELSE LET nl   == IndexOf(content, NL, pos + 1)
             last == Min(pos + n - 1, IF nl = 0 THEN Len(content) ELSE nl)
             got  == SubSeq(content, pos + 1, last) \o <<NUL>>
         IN  [ret |-> BufPtr,
              buf |-> [i \in 1..Len(buf) |->
                          IF i <= Len(got) THEN got[i] ELSE buf[i]],
              pos |-> last]

(***************************************************************************)
(* What the host and its machine supply.                                   *)
(***************************************************************************)
Paths == {"auth", "other"}
Modes == {"r", "rb"}
NotPresent == "VarError::NotPresent"
NotUnicode == "VarError::NotUnicode"
Uninit == [init |-> FALSE]
Inited(v) == [init |-> TRUE, val |-> v]

\* file contents: "u\np\n", "u\np", "u\np\nx\n", "uu\np\n"
Standard == <<117, 10, 112, 10>>
Files == { Standard, <<117, 10, 112>>,
           <<117, 10, 112, 10, 120, 10>>, <<117, 117, 10, 112, 10>> }

\* the capacities the host passes to fgets
Caps == {-1, 0, 1, 2, 3, 4}

\* BUILD_ARG_PASSWORD: "s", "ss"
Passwords == { <<115>>, <<115, 115>> }

\* the nonces OsRng may draw
Nonces == { [i \in 1..NONCE_SIZE |-> i], [i \in 1..NONCE_SIZE |-> 200 - i] }

\* machine-id contents: "a\n", "b\n"
IdA == <<97, 10>>
IdB == <<98, 10>>
MachineIds == { IdA, IdB }

FsStates == [{MACHINE_ID_PATHS[i] : i \in 1..Len(MACHINE_ID_PATHS)}
                -> {File(m) : m \in MachineIds} \cup {Missing}]

Diag(level, msg) == [level |-> level, msg |-> msg]

(***************************************************************************)
(* build.rs: main.  Encrypts the password and embeds nonce and ciphertext, *)
(* hex-encoded; a failing encrypt panics and the build fails.              *)
(***************************************************************************)
BuildMain(rng) ==
    /\ phase = "build"
    /\   LET r == encrypt(password, rng) IN
         IF r.ok
         THEN /\ NONCE_HEX' = hex_encode(r.val[1])
              /\ CIPHERTEXT_HEX' = hex_encode(r.val[2])
              /\ buildId' = machine_id
              /\ phase' = "built"
         ELSE /\ phase' = "build_failed"
              /\ UNCHANGED <<NONCE_HEX, CIPHERTEXT_HEX, buildId>>
    /\ UNCHANGED <<artifact, machineFiles, idChanges, password, environ, AUTH_FILE_PATH,
                   OPEN_FILES, lock, streams, pc, frame, plaintext, sealed,
                   sealedId, opened, openedId>>

\* the machine-id files change (another machine, a reinstalled system)
ChangeMachineId(fs) ==
    /\ phase \in {"run", "crypto"}
    /\ idChanges < MaxIdChanges
    /\ idChanges' = idChanges + 1
    /\ fs # machineFiles
    /\ machineFiles' = fs
    /\ UNCHANGED <<phase, artifact, password, NONCE_HEX, CIPHERTEXT_HEX, buildId, environ,
                   AUTH_FILE_PATH, OPEN_FILES, lock, streams, pc, frame,
                   plaintext, sealed, sealedId, opened, openedId>>

\* the constants as a damaged artifact holds them
Damaged(kind, nonce_hex, ciphertext_hex) ==
    CASE kind = "intact" -> <<nonce_hex, ciphertext_hex>>
      [] kind = "nonce_odd_length" ->
            <<Take(nonce_hex, Len(nonce_hex) - 1), ciphertext_hex>>
      [] kind = "nonce_not_hex" -> <<<<103>> \o Tail(nonce_hex), ciphertext_hex>>
      [] kind = "nonce_11_bytes" ->
            <<Take(nonce_hex, Len(nonce_hex) - 2), ciphertext_hex>>
      [] kind = "ciphertext_not_hex" ->
            <<nonce_hex, <<103>> \o Tail(ciphertext_hex)>>
      [] kind = "ciphertext_changed" ->
            <<nonce_hex,
              <<IF Head(ciphertext_hex) = 48 THEN 49 ELSE 48>>
                 \o Tail(ciphertext_hex)>>
      [] kind = "ciphertext_cut" ->
            <<nonce_hex, Take(ciphertext_hex, Len(ciphertext_hex) - 2)>>

ArtifactKinds ==
    {"intact", "nonce_odd_length", "nonce_not_hex", "nonce_11_bytes",
     "ciphertext_not_hex", "ciphertext_changed", "ciphertext_cut"}

\* the library is loaded into the host, with the constants its file holds
Install(kind) ==
    /\ phase = "built"
    /\ phase' = "run"
    /\ artifact' = kind
    /\ NONCE_HEX' = Damaged(kind, NONCE_HEX, CIPHERTEXT_HEX)[1]
    /\ CIPHERTEXT_HEX' = Damaged(kind, NONCE_HEX, CIPHERTEXT_HEX)[2]
    /\ UNCHANGED <<machineFiles, idChanges, password, buildId, environ,
                   AUTH_FILE_PATH, OPEN_FILES, lock, streams, pc, frame,
                   plaintext, sealed, sealedId, opened, openedId>>

runFrame == <<artifact, machineFiles, idChanges, password, NONCE_HEX,
              CIPHERTEXT_HEX, buildId, environ, plaintext, sealed, sealedId,
              opened, openedId>>

hookFrame == <<phase, artifact, machineFiles, idChanges, password, NONCE_HEX,
               CIPHERTEXT_HEX, buildId, environ, plaintext, sealed, sealedId,
               opened, openedId>>

(***************************************************************************)
(* fopen                                                                   *)
(***************************************************************************)
FopenCall(t, filename, mode) ==
    /\ phase = "run"
    /\ pc[t] = "idle"
    /\ pc' = [pc EXCEPT ![t] = "fopen_orig"]
    /\ frame' = [frame EXCEPT ![t] =
                    [NoFrame EXCEPT !.fn = "fopen", !.filename = filename,
                                    !.mode = mode]]
    /\ UNCHANGED <<hookFrame, AUTH_FILE_PATH, OPEN_FILES, lock, streams>>

\* let stream = Functions::fopen(filename, mode): libc yields NULL or a
\* FILE not in use, and the stream reads some content
FopenOrig(t, h, content) ==
    /\ phase = "run"
    /\ pc[t] = "fopen_orig"
    /\   /\ h # NULL => streams[h] = Closed
         /\ streams' = IF h = NULL THEN streams
                       ELSE [streams EXCEPT ![h] =
                               [open |-> TRUE, path |-> frame[t].filename,
                                mode |-> frame[t].mode,
                                content |-> content, pos |-> 0, owner |-> t,
                                hist |-> <<>>]]
         /\ frame' = [frame EXCEPT
                        ![t].stream = h, ![t].response = h,
                        ![t].calls = @ \o <<[fn |-> "fopen",
                                             args |-> <<frame[t].filename,
                                                        frame[t].mode>>,
                                             ret |-> h]>>]
    /\ pc' = [pc EXCEPT ![t] = "fopen_check"]
    /\ UNCHANGED <<hookFrame, AUTH_FILE_PATH, OPEN_FILES, lock>>

\* a configuration that falls back to a default path when the variable is
\* unusable
AUTH_FILE_PATH_init_default ==
    IF environ \in {NotPresent, NotUnicode}
    THEN [val |-> Some("auth"),
          diags |-> <<Diag("ERROR",
                   "The environment variable AUTH_FILE_PATH is not set")>>]
    ELSE [val |-> Some(environ), diags |-> <<>>]

\* Lazy::new(|| match env::var("AUTH_FILE_PATH") ...): the value and the
\* diagnostics of the first access
AUTH_FILE_PATH_init ==
    IF environ = NotPresent
    THEN [val |-> None,
          diags |-> <<Diag("ERROR",
                   "The environment variable AUTH_FILE_PATH is not set")>>]
    ELSE IF environ = NotUnicode
    THEN [val |-> None,
          diags |-> <<Diag("ERROR",
       "The environment variable AUTH_FILE_PATH is not a valid UTF-8 string")>>]
    ELSE [val |-> Some(environ), diags |-> <<>>]

\* a matcher that takes the binary read mode for the read-only mode
target_match_lenient(filename, mode, auth_file_path) ==
    filename = auth_file_path /\ mode \in {"r", "rb"}

\* args == (Ok(auth_file_path), Ok("r"))
target_match(filename, mode, auth_file_path) ==
    filename = auth_file_path /\ mode = "r"

\* lines 34-46: the tests that decide whether the stream is registered
FopenCheck(t) ==
    /\ phase = "run"
    /\ pc[t] = "fopen_check"
    /\ IF frame[t].stream = NULL
       THEN /\ pc' = [pc EXCEPT ![t] = "fopen_ret"]
            /\ UNCHANGED <<AUTH_FILE_PATH, frame>>
       ELSE LET forced == IF ~AUTH_FILE_PATH.init
                          THEN AUTH_FILE_PATH_init
                          ELSE [val |-> AUTH_FILE_PATH.val, diags |-> <<>>]
            IN  /\ AUTH_FILE_PATH' = Inited(forced.val)
                /\ frame' = [frame EXCEPT ![t].diags = @ \o forced.diags]
                /\ pc' = [pc EXCEPT ![t] =
                            IF /\ forced.val.some
                               /\ target_match(frame[t].filename, frame[t].mode,
                                               forced.val.val)
                            THEN "add_lock" ELSE "fopen_ret"]
    /\ UNCHANGED <<hookFrame, OPEN_FILES, lock, streams>>

\* State::add: OPEN_FILES.lock()
AddLock(t) ==
    /\ phase = "run"
    /\ pc[t] = "add_lock"
    /\ lock = NoThread
    /\ lock' = t
    /\ pc' = [pc EXCEPT ![t] = "add_insert"]
    /\ UNCHANGED <<hookFrame, AUTH_FILE_PATH, OPEN_FILES, streams, frame>>

\* a State::add that keeps the guard until it returns
AddInsert_holding(t) ==
    /\ phase = "run"
    /\ pc[t] = "add_insert"
    /\ LET r == State_add(OPEN_FILES, frame[t].stream)
       IN  /\ OPEN_FILES' = r.map
           /\ frame' = [frame EXCEPT ![t].prev = r.prev]
    /\ lock' = lock
    /\ pc' = [pc EXCEPT ![t] = "add_warn"]
    /\ UNCHANGED <<hookFrame, AUTH_FILE_PATH, streams>>

\* .insert(stream as usize, StreamState::new()); the guard is dropped
AddInsert(t) ==
    /\ phase = "run"
    /\ pc[t] = "add_insert"
    /\ LET r == State_add(OPEN_FILES, frame[t].stream)
       IN  /\ OPEN_FILES' = r.map
           /\ frame' = [frame EXCEPT ![t].prev = r.prev]
    /\ lock' = NoThread
    /\ pc' = [pc EXCEPT ![t] = "add_warn"]
    /\ UNCHANGED <<hookFrame, AUTH_FILE_PATH, streams>>

\* if previous_value.is_some() { eprintln!(...) }
AddWarn(t) ==
    /\ phase = "run"
    /\ pc[t] = "add_warn"
    /\ frame' = [frame EXCEPT ![t].diags =
                    IF frame[t].prev.some
                    THEN @ \o <<Diag("WARNING", "Stream was already in the map")>>
                    ELSE @]
    /\ pc' = [pc EXCEPT ![t] = "fopen_ret"]
    /\ UNCHANGED <<hookFrame, AUTH_FILE_PATH, OPEN_FILES, lock, streams>>

\* the hook returns stream
FopenRet(t) ==
    /\ phase = "run"
    /\ pc[t] = "fopen_ret"
    /\ pc' = [pc EXCEPT ![t] = "idle"]
    /\ frame' = [frame EXCEPT ![t] = NoFrame]
    /\ UNCHANGED <<hookFrame, AUTH_FILE_PATH, OPEN_FILES, lock, streams>>

(***************************************************************************)
(* fgets                                                                   *)
(***************************************************************************)
\* the host reads a stream it has open, into a buffer of n bytes
FgetsCall(t, h, n) ==
    /\ phase = "run"
    /\ pc[t] = "idle"
    /\ streams[h].open /\ streams[h].owner = t
    /\ Len(streams[h].hist) < MaxReads
    /\ pc' = [pc EXCEPT ![t] = "fgets_orig"]
    /\ frame' = [frame EXCEPT ![t] =
                    [NoFrame EXCEPT !.fn = "fgets", !.stream = h, !.n = n,
                                    !.buf = [i \in 1..Max(n, 0) |-> Filler]]]
    /\ UNCHANGED <<hookFrame, AUTH_FILE_PATH, OPEN_FILES, lock, streams>>

\* a hook that calls State::inc_lines whatever the original returned
FgetsOrig_counts_all(t) ==
    /\ phase = "run"
    /\ pc[t] = "fgets_orig"
    /\ \E fails \in BOOLEAN :
         LET h == frame[t].stream
             r == IF fails
                  THEN [ret |-> NULL, buf |-> frame[t].buf,
                        pos |-> streams[h].pos]
                  ELSE Functions_fgets(frame[t].buf, frame[t].n,
                                       streams[h].content, streams[h].pos)
         IN  /\ streams' = [streams EXCEPT ![h].pos = r.pos]
             /\ frame' = [frame EXCEPT
                            ![t].buf = r.buf, ![t].orig = r.buf,
                            ![t].response = r.ret,
                            ![t].calls = @ \o <<[fn |-> "fgets",
                                                 args |-> <<frame[t].n, h>>,
                                                 ret |-> r.ret]>>]
             /\ pc' = [pc EXCEPT ![t] = "inc_lock"]
    /\ UNCHANGED <<hookFrame, AUTH_FILE_PATH, OPEN_FILES, lock>>

\* let response_buffer = Functions::fgets(buf, n, stream); a read error
\* yields NULL like the end of the stream
FgetsOrig(t) ==
    /\ phase = "run"
    /\ pc[t] = "fgets_orig"
    /\ \E fails \in BOOLEAN :
         LET h == frame[t].stream
             r == IF fails
                  THEN [ret |-> NULL, buf |-> frame[t].buf,
                        pos |-> streams[h].pos]
                  ELSE Functions_fgets(frame[t].buf, frame[t].n,
                                       streams[h].content, streams[h].pos)
         IN  /\ streams' = [streams EXCEPT ![h].pos = r.pos]
             /\ frame' = [frame EXCEPT
                            ![t].buf = r.buf, ![t].orig = r.buf,
                            ![t].response = r.ret,
                            ![t].calls = @ \o <<[fn |-> "fgets",
                                                 args |-> <<frame[t].n, h>>,
                                                 ret |-> r.ret]>>]
             /\ pc' = [pc EXCEPT ![t] =
                         IF r.ret # NULL THEN "inc_lock" ELSE "fgets_ret"]
    /\ UNCHANGED <<hookFrame, AUTH_FILE_PATH, OPEN_FILES, lock>>

\* State::inc_lines: OPEN_FILES.lock()
IncLock(t) ==
    /\ phase = "run"
    /\ pc[t] = "inc_lock"
    /\ lock = NoThread
    /\ lock' = t
    /\ pc' = [pc EXCEPT ![t] = "inc_op"]
    /\ UNCHANGED <<hookFrame, AUTH_FILE_PATH, OPEN_FILES, streams, frame>>

\* a hook that counts lines of the file: only a read that ends in a newline
\* moves the counter
IncOp_by_lines(t) ==
    /\ phase = "run"
    /\ pc[t] = "inc_op"
    /\ LET got == CStr(frame[t].orig)
           ends == Len(got) > 0 /\ got[Len(got)] = NL
           r == IF ends THEN State_inc_lines(OPEN_FILES, frame[t].stream)
                ELSE [map |-> OPEN_FILES, ret |-> None]
       IN  /\ OPEN_FILES' = r.map
           /\ frame' = [frame EXCEPT ![t].cnt = r.ret]
           /\ pc' = [pc EXCEPT ![t] =
                       IF r.ret = Some(PASSWORD_LINE_NUMBER)
                       THEN "password_line" ELSE "fgets_ret"]
    /\ lock' = NoThread
    /\ UNCHANGED <<hookFrame, AUTH_FILE_PATH, streams>>

\* an inc_lines that, for a stream it does not know, calls State::add while
\* it still has its own guard
IncOp_relock(t) ==
    /\ phase = "run"
    /\ pc[t] = "inc_op"
    /\ IF frame[t].stream \in DOMAIN OPEN_FILES
       THEN LET r == State_inc_lines(OPEN_FILES, frame[t].stream)
            IN  /\ OPEN_FILES' = r.map
                /\ frame' = [frame EXCEPT ![t].cnt = r.ret]
                /\ pc' = [pc EXCEPT ![t] =
                            IF r.ret = Some(PASSWORD_LINE_NUMBER)
                            THEN "password_line" ELSE "fgets_ret"]
                /\ lock' = NoThread
       ELSE /\ pc' = [pc EXCEPT ![t] = "add_lock"]
            /\ UNCHANGED <<OPEN_FILES, frame, lock>>
    /\ UNCHANGED <<hookFrame, AUTH_FILE_PATH, streams>>

\* .get_mut(..).map(|state| state.inc()); the guard is dropped; then the
\* comparison with Some(PASSWORD_LINE_NUMBER)
IncOp(t) ==
    /\ phase = "run"
    /\ pc[t] = "inc_op"
    /\ LET r == State_inc_lines(OPEN_FILES, frame[t].stream)
       IN  /\ OPEN_FILES' = r.map
           /\ frame' = [frame EXCEPT ![t].cnt = r.ret]
           /\ pc' = [pc EXCEPT ![t] =
                       IF r.ret = Some(PASSWORD_LINE_NUMBER)
                       THEN "password_line" ELSE "fgets_ret"]
    /\ lock' = NoThread
    /\ UNCHANGED <<hookFrame, AUTH_FILE_PATH, streams>>

\* match params::password_line()
\* a panic that reaches the extern "C" boundary aborts the host
PasswordLine(t) ==
    /\ phase = "run"
    /\ pc[t] = "password_line"
    /\ frame' = [frame EXCEPT ![t].pw = Some(password_line),
                              ![t].mid = Some(machine_id)]
    /\ pc' = [pc EXCEPT ![t] = "match_pw"]
    /\ phase' = IF ~password_line.ok /\ password_line.panic
                THEN "aborted" ELSE phase
    /\ UNCHANGED <<runFrame, AUTH_FILE_PATH, OPEN_FILES, lock, streams>>

\* a hook that reports a failed recovery to the host as a failed read
MatchPw_fails(t) ==
    /\ phase = "run"
    /\ pc[t] = "match_pw"
    /\ LET pw == frame[t].pw.val IN
       IF pw.ok
       THEN LET r == replace_line(frame[t].buf, frame[t].n, pw.val)
            IN  frame' = [frame EXCEPT ![t].buf = r.buf,
                                       ![t].diags = @ \o r.diags]
       ELSE frame' = [frame EXCEPT ![t].response = NULL,
                                   ![t].diags = @ \o
                        <<[level |-> "ERROR",
                           msg |-> "Unexpected error obtaining the password",
                           err |-> pw.err]>>]
    /\ pc' = [pc EXCEPT ![t] = "fgets_ret"]
    /\ UNCHANGED <<hookFrame, AUTH_FILE_PATH, OPEN_FILES, lock, streams>>

\* Ok(password_line) => replace_line(buf, n, &password_line),
\* Err(err) => eprintln!(...)
MatchPw(t) ==
    /\ phase = "run"
    /\ pc[t] = "match_pw"
    /\ LET pw == frame[t].pw.val IN
       IF pw.ok
       THEN LET r == replace_line(frame[t].buf, frame[t].n, pw.val)
            IN  frame' = [frame EXCEPT ![t].buf = r.buf,
                                       ![t].diags = @ \o r.diags]
       ELSE frame' = [frame EXCEPT ![t].diags = @ \o
                        <<[level |-> "ERROR",
                           msg |-> "Unexpected error obtaining the password",
                           err |-> pw.err]>>]
    /\ pc' = [pc EXCEPT ![t] = "fgets_ret"]
    /\ UNCHANGED <<hookFrame, AUTH_FILE_PATH, OPEN_FILES, lock, streams>>

\* what one returned read leaves in the stream's history: the number of
\* bytes the original fgets took from the stream
ReadRecord(f) == Len(CStr(f.orig))

\* the hook returns response_buffer
FgetsRet(t) ==
    /\ phase = "run"
    /\ pc[t] = "fgets_ret"
    /\ streams' = IF frame[t].response # NULL
                  THEN [streams EXCEPT ![frame[t].stream].hist =
                            Append(@, ReadRecord(frame[t]))]
                  ELSE streams
    /\ pc' = [pc EXCEPT ![t] = "idle"]
    /\ frame' = [frame EXCEPT ![t] = NoFrame]
    /\ UNCHANGED <<hookFrame, AUTH_FILE_PATH, OPEN_FILES, lock>>

(***************************************************************************)
(* fclose                                                                  *)
(***************************************************************************)
\* a close hook that forwards to the original without State::remove
FcloseCall_forward_first(t, h) ==
    /\ phase = "run"
    /\ pc[t] = "idle"
    /\ streams[h].open /\ streams[h].owner = t
    /\ pc' = [pc EXCEPT ![t] = "fclose_orig"]
    /\ frame' = [frame EXCEPT ![t] =
                    [NoFrame EXCEPT !.fn = "fclose", !.stream = h]]
    /\ UNCHANGED <<hookFrame, AUTH_FILE_PATH, OPEN_FILES, lock, streams>>

FcloseCall(t, h) ==
    /\ phase = "run"
    /\ pc[t] = "idle"
    /\ streams[h].open /\ streams[h].owner = t
    /\ pc' = [pc EXCEPT ![t] = "remove_lock"]
    /\ frame' = [frame EXCEPT ![t] =
                    [NoFrame EXCEPT !.fn = "fclose", !.stream = h]]
    /\ UNCHANGED <<hookFrame, AUTH_FILE_PATH, OPEN_FILES, lock, streams>>

\* State::remove: OPEN_FILES.lock()
RemoveLock(t) ==
    /\ phase = "run"
    /\ pc[t] = "remove_lock"
    /\ lock = NoThread
    /\ lock' = t
    /\ pc' = [pc EXCEPT ![t] = "remove_op"]
    /\ UNCHANGED <<hookFrame, AUTH_FILE_PATH, OPEN_FILES, streams, frame>>

\* .remove(&(stream as usize)); the guard is dropped
RemoveOp(t) ==
    /\ phase = "run"
    /\ pc[t] = "remove_op"
    /\ OPEN_FILES' = State_remove(OPEN_FILES, frame[t].stream)
    /\ lock' = NoThread
    /\ pc' = [pc EXCEPT ![t] = "fclose_orig"]
    /\ UNCHANGED <<hookFrame, AUTH_FILE_PATH, streams, frame>>

\* Functions::fclose(stream): the stream is closed whatever the status, and
\* libc may hand its FILE out again
FcloseOrig(t) ==
    /\ phase = "run"
    /\ pc[t] = "fclose_orig"
    /\ \E status \in {0, EOF} :
         frame' = [frame EXCEPT
                     ![t].response = status,
                     ![t].calls = @ \o <<[fn |-> "fclose",
                                          args |-> <<frame[t].stream>>,
                                          ret |-> status]>>]
    /\ streams' = [streams EXCEPT ![frame[t].stream] = Closed]
    /\ pc' = [pc EXCEPT ![t] = "fclose_ret"]
    /\ UNCHANGED <<hookFrame, AUTH_FILE_PATH, OPEN_FILES, lock>>

FcloseRet(t) ==
    /\ phase = "run"
    /\ pc[t] = "fclose_ret"
    /\ pc' = [pc EXCEPT ![t] = "idle"]
    /\ frame' = [frame EXCEPT ![t] = NoFrame]
    /\ UNCHANGED <<hookFrame, AUTH_FILE_PATH, OPEN_FILES, lock, streams>>

(***************************************************************************)
(* The hooked process: built on one machine, installed, then run by a      *)
(* host whose threads call the hooks.  A scenario names what the host and  *)
(* the machine may do.                                                     *)
(***************************************************************************)
Environs == {"auth", NotPresent, NotUnicode}

BuildMachine == [p \in {MACHINE_ID_PATHS[i] : i \in 1..Len(MACHINE_ID_PATHS)} |->
                    IF p = MACHINE_ID_PATHS[1] THEN File(IdA) ELSE Missing]

\* nothing built, nothing open, no thread in a hook
InitCommon(fss) ==
    /\ artifact = "intact"
    /\ machineFiles \in fss
    /\ idChanges = 0
    /\ NONCE_HEX = <<>>
    /\ CIPHERTEXT_HEX = <<>>
    /\ buildId = None
    /\ AUTH_FILE_PATH = Uninit
    /\ OPEN_FILES = << >>
    /\ lock = NoThread
    /\ streams = [h \in Handles |-> Closed]
    /\ pc = [t \in Threads |-> "idle"]
    /\ frame = [t \in Threads |-> NoFrame]
    /\ sealed = None
    /\ sealedId = None
    /\ opened = None
    /\ openedId = None

InitOf(passwords, fss, environs) ==
    /\ phase = "build"
    /\ password \in passwords
    /\ environ \in environs
    /\ plaintext = <<>>
    /\ InitCommon(fss)

\* the hooks, called by threads T on paths P with modes M, capacities C,
\* and files of contents F, where libc hands out the streams H
Hooks(T, H, P, M, F, C) ==
    \/ \E t \in T, filename \in P, mode \in M : FopenCall(t, filename, mode)
    \/ \E t \in T, h \in H \cup {NULL}, content \in F :
            FopenOrig(t, h, content)
    \/ \E t \in T : FopenCheck(t)
    \/ \E t \in T : AddLock(t)
    \/ \E t \in T : AddInsert(t)
    \/ \E t \in T : AddWarn(t)
    \/ \E t \in T : FopenRet(t)
    \/ \E t \in T, h \in Handles, n \in C : FgetsCall(t, h, n)
    \/ \E t \in T : FgetsOrig(t)
    \/ \E t \in T : IncLock(t)
    \/ \E t \in T : IncOp(t)
    \/ \E t \in T : PasswordLine(t)
    \/ \E t \in T : MatchPw(t)
    \/ \E t \in T : FgetsRet(t)
    \/ \E t \in T, h \in Handles : FcloseCall(t, h)
    \/ \E t \in T : RemoveLock(t)
    \/ \E t \in T : RemoveOp(t)
    \/ \E t \in T : FcloseOrig(t)
    \/ \E t \in T : FcloseRet(t)

\* Spec: the threads of the host against each other, on the standard file
Init == InitOf({<<115>>}, {BuildMachine}, {"auth"})

Next ==
    \/ \E rng \in {[i \in 1..NONCE_SIZE |-> i]} : BuildMain(rng)
    \/ Install("intact")
    \/ Hooks(Threads, Handles, Paths, {"r"}, {Standard}, {3})

Spec == Init /\ [][Next]_vars

(***************************************************************************)
(* SpecData: one thread and one stream at a time, over every file          *)
(* content, capacity and password, on the build machine or another one.    *)
(***************************************************************************)
OtherMachine == [p \in DOMAIN BuildMachine |->
                    IF p = MACHINE_ID_PATHS[1] THEN File(IdB) ELSE Missing]

InitData == InitOf(Passwords, {BuildMachine}, {"auth"})

NextData ==
    \/ \E rng \in {[i \in 1..NONCE_SIZE |-> i]} : BuildMain(rng)
    \/ Install("intact")
    \/ ChangeMachineId(OtherMachine)
    \/ Hooks({1}, {1}, {"auth"}, {"r"}, Files, Caps)

SpecData == InitData /\ [][NextData]_vars

(***************************************************************************)
(* SpecFail: one thread on the standard file, with every configuration of  *)
(* the environment, every damage to the embedded constants and every state *)
(* of the machine-id files.                                                *)
(***************************************************************************)
NoMachine == [p \in DOMAIN BuildMachine |-> Missing]

InitFail == InitOf({<<115>>}, {BuildMachine, NoMachine}, Environs)

NextFail ==
    \/ \E rng \in {[i \in 1..NONCE_SIZE |-> i]} : BuildMain(rng)
    \/ \E kind \in ArtifactKinds : Install(kind)
    \/ \E fs \in {BuildMachine, OtherMachine, NoMachine} : ChangeMachineId(fs)
    \/ Hooks({1}, {1}, Paths, Modes, {Standard}, {2, 3})

SpecFail == InitFail /\ [][NextFail]_vars

(***************************************************************************)
(* SpecCrypto: the encryption crate on its own.  encrypt seals a plaintext *)
(* on the machine as it is, the machine-id files may change, decrypt opens *)
(* what encrypt returned.                                                  *)
(***************************************************************************)
\* the byte sequences of length at most 2 over NUL, newline, "s", 0xff
PlainBytes == {0, 10, 115, 255}
Plaintexts == {<<>>} \cup {<<a>> : a \in PlainBytes}
                \cup {<<a, b>> : a \in PlainBytes, b \in PlainBytes}

cryptoFrame == <<phase, artifact, idChanges, password, NONCE_HEX,
                 CIPHERTEXT_HEX, buildId, environ, AUTH_FILE_PATH, OPEN_FILES,
                 lock, streams, pc, frame>>

EncryptCall(rng) ==
    /\ phase = "crypto"
    /\ ~sealed.some
    /\ sealed' = Some(encrypt(plaintext, rng))
    /\ sealedId' = Some(machine_id)
    /\ UNCHANGED <<cryptoFrame, machineFiles, plaintext, opened, openedId>>

DecryptCall ==
    /\ phase = "crypto"
    /\ sealed.some /\ sealed.val.ok
    /\ opened' = Some(decrypt(sealed.val.val[1], sealed.val.val[2]))
    /\ openedId' = Some(machine_id)
    /\ UNCHANGED <<cryptoFrame, machineFiles, plaintext, sealed, sealedId>>

InitCrypto ==
    /\ phase = "crypto"
    /\ password = <<>>
    /\ environ = NotPresent
    /\ plaintext \in Plaintexts
    /\ InitCommon(FsStates)

NextCrypto ==
    \/ \E rng \in Nonces : EncryptCall(rng)
    \/ \E fs \in FsStates : ChangeMachineId(fs)
    \/ DecryptCall

SpecCrypto == InitCrypto /\ [][NextCrypto]_vars

(***************************************************************************)
(* What the properties speak of.                                           *)
(***************************************************************************)
\* the stream was opened on the configured path, read-only
IsTarget(h) ==
    /\ streams[h].open
    /\ environ \notin {NotPresent, NotUnicode}
    /\ streams[h].path = environ
    /\ streams[h].mode = "r"

\* thread t is about to return a non-null result from fgets
Returning(t) == pc[t] = "fgets_ret" /\ frame[t].response # NULL

Delivered(t) == CStr(frame[t].buf)
Original(t) == CStr(frame[t].orig)
SecretLine == password \o <<NL>>
Fits(t) == Len(password) + 2 <= frame[t].n

\* the bytes each non-null read of t's stream took, the current one last
Spans(t) == Append(streams[frame[t].stream].hist, Len(Original(t)))

RECURSIVE SumTo(_, _)
SumTo(seq, k) == IF k = 0 THEN 0 ELSE seq[k] + SumTo(seq, k - 1)

LineOf(content, start) == 1 + Cardinality({i \in 1..start : content[i] = NL})

\* read j of t's stream returned exactly one whole line
WholeLine(t, j) ==
    LET content == streams[frame[t].stream].content
        from == SumTo(Spans(t), j - 1)
        to == SumTo(Spans(t), j)
    IN  /\ from < to
        /\ from = 0 \/ content[from] = NL
        /\ to = Len(content) \/ content[to] = NL

\* where the current read of t started, and its number among the non-null
\* reads of the stream
ReadStart(t) == SumTo(Spans(t), Len(Spans(t)) - 1)
ReadIndex(t) == Len(Spans(t))
ReadLine(t) == LineOf(streams[frame[t].stream].content, ReadStart(t))

\* secret recovery, if it ran in this call, read the identity of the build
BuildIdentity(t) == frame[t].mid.some => frame[t].mid.val = buildId

(***************************************************************************)
(* C1 as stated: on the target file, for every content and capacity, a     *)
(* read within line 1 or within line 3 onward is delivered unchanged and   *)
(* a read within line 2 delivers the secret and a newline when that fits.  *)
(***************************************************************************)
C1_AsClaimed ==
    \A t \in Threads :
        Returning(t) /\ IsTarget(frame[t].stream) /\ BuildIdentity(t) =>
            /\ ReadLine(t) # 2 => Delivered(t) = Original(t)
            /\ ReadLine(t) = 2 /\ Fits(t) => Delivered(t) = SecretLine

(***************************************************************************)
(* C1, amended: when the first read returned the whole of line 1 and the   *)
(* second read the whole of line 2, and secret recovery read the identity  *)
(* of the build, then line 1 is delivered unchanged, line 2 is delivered   *)
(* as the secret and a newline when that fits the capacity, and every read *)
(* of line 3 onward is delivered unchanged.                                *)
(***************************************************************************)
C1_LineByLine ==
    \A t \in Threads :
        /\ Returning(t) /\ IsTarget(frame[t].stream) /\ BuildIdentity(t)
        /\ \A j \in 1..Min(2, ReadIndex(t)) : WholeLine(t, j)
        =>  /\ ReadLine(t) # 2 => Delivered(t) = Original(t)
            /\ ReadLine(t) = 2 /\ Fits(t) => Delivered(t) = SecretLine

\* line 2 of a three-line file was read whole and delivered as the secret
C1_Witness ==
    \E t \in Threads :
        /\ Returning(t) /\ IsTarget(frame[t].stream) /\ BuildIdentity(t)
        /\ streams[frame[t].stream].content = <<117, 10, 112, 10, 120, 10>>
        /\ ReadIndex(t) = 2 /\ WholeLine(t, 1) /\ WholeLine(t, 2)
        /\ Delivered(t) = SecretLine /\ Delivered(t) # Original(t)

(***************************************************************************)
(* C2: a stream opened on a path other than the configured one gets, from  *)
(* every call of the fgets hook, the buffer exactly as the original fgets  *)
(* left it, whatever the other threads open, read and close meanwhile.     *)
(***************************************************************************)
C2_NonTargetUntouched ==
    \A t \in Threads :
        /\ pc[t] = "fgets_ret"
        /\ streams[frame[t].stream].path # environ
        => frame[t].buf = frame[t].orig

\* a stream on another path returns its second line while the registry
\* holds a target stream and another thread is closing one
C2_Witness ==
    \E t \in Threads, u \in Threads :
        /\ Returning(t) /\ streams[frame[t].stream].path = "other"
        /\ ReadIndex(t) = 2
        /\ DOMAIN OPEN_FILES # {}
        /\ u # t /\ pc[u] = "remove_op" /\ IsTarget(frame[u].stream)

(***************************************************************************)
(* C3: when a hook is about to return, it has called the original once,    *)
(* with the arguments it was called with, and returns what the original    *)
(* returned, on every path through fopen, fgets and fclose.                *)
(***************************************************************************)
CallerArgs(f) ==
    CASE f.fn = "fopen" -> <<f.filename, f.mode>>
      [] f.fn = "fgets" -> <<f.n, f.stream>>
      [] f.fn = "fclose" -> <<f.stream>>

C3_ReturnsOriginal ==
    \A t \in Threads :
        pc[t] \in {"fopen_ret", "fgets_ret", "fclose_ret"} =>
            /\ Len(frame[t].calls) = 1
            /\ frame[t].calls[1].fn = frame[t].fn
            /\ frame[t].calls[1].args = CallerArgs(frame[t])
            /\ frame[t].response = frame[t].calls[1].ret

\* fgets returns the buffer after secret recovery failed on a target stream
C3_Witness ==
    \E t \in Threads :
        /\ Returning(t) /\ IsTarget(frame[t].stream)
        /\ frame[t].pw.some /\ ~frame[t].pw.val.ok
        /\ frame[t].response = BufPtr

(***************************************************************************)
(* C4: on the qualifying read, a capacity below len(secret) + 2 leaves     *)
(* the whole buffer as the original read filled it and writes one          *)
(* diagnostic with both lengths; a capacity of len(secret) + 2 or more     *)
(* substitutes and writes none.                                            *)
(***************************************************************************)
TooLong(newLen, space) ==
    [level |-> "WARNING",
     msg |-> "Replacement line is too long to fit in the buffer",
     new_line_len |-> newLen, available_space |-> space]

C4_ExactBoundary ==
    \A t \in Threads :
        /\ pc[t] = "fgets_ret"
        /\ frame[t].cnt = Some(PASSWORD_LINE_NUMBER)
        /\ frame[t].pw.some /\ frame[t].pw.val.ok
        =>  IF frame[t].n < Len(password) + 2
            THEN /\ frame[t].buf = frame[t].orig
                 /\ frame[t].diags =
                        <<TooLong(Len(password) + 2, frame[t].n)>>
            ELSE /\ Delivered(t) = SecretLine
                 /\ frame[t].diags = <<>>

\* the capacity is one byte short of the replacement
C4_Witness ==
    \E t \in Threads :
        /\ pc[t] = "fgets_ret"
        /\ frame[t].cnt = Some(PASSWORD_LINE_NUMBER)
        /\ frame[t].pw.some /\ frame[t].pw.val.ok
        /\ frame[t].n = Len(password) + 1
        /\ frame[t].buf = frame[t].orig /\ Len(frame[t].diags) = 1

(***************************************************************************)
(* C5: every registered target stream has its own counter: the count of    *)
(* its entry is the number of its own non-null reads, and the recovery of  *)
(* the secret runs in its own second read, whatever is read from or closed *)
(* on the other streams.                                                   *)
(***************************************************************************)
\* the fopen hook has registered h and no fclose hook has released it
Registered(h) ==
    /\ IsTarget(h)
    /\ ~\E t \in Threads :
            /\ frame[t].stream = h
            /\ pc[t] \in {"fopen_check", "add_lock", "add_insert", "fclose_orig"}

\* the non-null reads of h that have been counted
Counted(h) ==
    Len(streams[h].hist)
      + (IF \E t \in Threads : /\ frame[t].fn = "fgets" /\ frame[t].stream = h
                               /\ frame[t].cnt.some
         THEN 1 ELSE 0)

C5_IndependentCounters ==
    /\ \A h \in Handles :
          Registered(h) =>
              /\ h \in DOMAIN OPEN_FILES
              /\ OPEN_FILES[h].lines = Min(USIZE_MAX, Counted(h))
    /\ \A t \in Threads :
          frame[t].fn = "fgets" /\ Registered(frame[t].stream) =>
              /\ frame[t].pw.some => Counted(frame[t].stream) = 2
              /\ pc[t] = "fgets_ret" /\ frame[t].response # NULL
                   /\ Counted(frame[t].stream) = 2 => frame[t].pw.some

\* two target streams are open, one delivers the secret on its second read
\* while the other has been read once
C5_Witness ==
    \E t \in Threads, g \in Handles, h \in Handles :
        /\ g # h /\ Registered(g) /\ Registered(h)
        /\ Returning(t) /\ frame[t].stream = g /\ Delivered(t) = SecretLine
        /\ OPEN_FILES[g].lines = 2 /\ OPEN_FILES[h].lines = 1

(***************************************************************************)
(* C6: with AUTH_FILE_PATH missing or not UTF-8 the registry stays empty,  *)
(* no buffer is modified, secret recovery is never invoked and the process *)
(* runs on.                                                                *)
(***************************************************************************)
C6_NoConfiguration ==
    environ \in {NotPresent, NotUnicode} =>
        /\ DOMAIN OPEN_FILES = {}
        /\ phase # "aborted"
        /\ \A t \in Threads :
              /\ ~frame[t].pw.some
              /\ pc[t] \notin {"add_lock", "add_insert", "add_warn",
                               "password_line", "match_pw"}
              /\ frame[t].fn = "fgets" /\ pc[t] # "fgets_orig"
                    => frame[t].buf = frame[t].orig
              /\ pc[t] \in {"fopen_ret", "fgets_ret", "fclose_ret"}
                    => frame[t].response = frame[t].calls[1].ret

\* without configuration, the second line of the file "auth" is returned
C6_Witness ==
    \E t \in Threads :
        /\ environ = NotUnicode
        /\ Returning(t) /\ ReadIndex(t) = 2
        /\ streams[frame[t].stream].path = "auth"
        /\ streams[frame[t].stream].mode = "r"

(***************************************************************************)
(* C7: when line 2 is the last line of the target file and has no newline, *)
(* the read that returns it delivers the secret followed by a newline      *)
(* (line 1 read whole, the replacement fits, recovery reads the identity   *)
(* of the build).                                                          *)
(***************************************************************************)
\* the current read of t returned line 2, which ends the file unterminated
LastLineUnterminated(t) ==
    LET content == streams[frame[t].stream].content
    IN  /\ ReadIndex(t) = 2 /\ WholeLine(t, 1) /\ WholeLine(t, 2)
        /\ streams[frame[t].stream].pos = Len(content)
        /\ content[Len(content)] # NL

C7_NoTrailingNewline ==
    \A t \in Threads :
        /\ Returning(t) /\ IsTarget(frame[t].stream) /\ BuildIdentity(t)
        /\ LastLineUnterminated(t) /\ Fits(t)
        => /\ Delivered(t) = SecretLine
           /\ Original(t) = SubSeq(streams[frame[t].stream].content,
                                   ReadStart(t) + 1,
                                   Len(streams[frame[t].stream].content))

C7_Witness ==
    \E t \in Threads :
        /\ Returning(t) /\ IsTarget(frame[t].stream) /\ BuildIdentity(t)
        /\ LastLineUnterminated(t) /\ Fits(t)
        /\ Original(t) = <<112>> /\ Delivered(t) = SecretLine

(***************************************************************************)
(* C8: when secret recovery fails, the buffer stays as the original read   *)
(* filled it, one ERROR diagnostic is written, the hook returns the        *)
(* original's result, the stream stays tracked and the host runs on.       *)
(***************************************************************************)
RecoveryFailed(t) == frame[t].pw.some /\ ~frame[t].pw.val.ok

C8_RecoveryFailure ==
    \A t \in Threads :
        RecoveryFailed(t) =>
            /\ phase = "run"
            /\ frame[t].buf = frame[t].orig
            /\ frame[t].response = frame[t].calls[1].ret
            /\ frame[t].response # NULL
            /\ frame[t].stream \in DOMAIN OPEN_FILES
            /\ pc[t] \in {"match_pw", "fgets_ret"}
            /\ pc[t] = "fgets_ret" =>
                  frame[t].diags =
                     <<[level |-> "ERROR",
                        msg |-> "Unexpected error obtaining the password",
                        err |-> frame[t].pw.val.err]>>

\* the machine identity is not the build's: authentication fails
C8_Witness ==
    \E t \in Threads :
        /\ pc[t] = "fgets_ret" /\ RecoveryFailed(t)
        /\ artifact = "intact"
        /\ frame[t].pw.val.err = Error_Cipher

(***************************************************************************)
(* C9: decrypt, run with the machine identity that encrypt ran with, turns *)
(* the nonce and ciphertext that encrypt returned back into the plaintext  *)
(* encrypt was given, for every plaintext.                                 *)
(***************************************************************************)
C9_RoundTrip ==
    opened.some /\ openedId = sealedId => opened.val = Ok(plaintext)

\* a two-byte plaintext that is no UTF-8 comes back, the machine-id having
\* moved to the second path in between
C9_Witness ==
    /\ opened.some /\ openedId = sealedId
    /\ plaintext = <<115, 255>> /\ opened.val = Ok(plaintext)
    /\ idChanges = 1 /\ ~machineFiles[MACHINE_ID_PATHS[1]].exists

(***************************************************************************)
(* C10: decrypt reads the machine identity anew in every call: when it is  *)
(* not the identity encrypt read, decrypt returns an error and no bytes,   *)
(* also when an earlier decrypt of the same ciphertext succeeded.          *)
(***************************************************************************)
C10_OtherIdentity ==
    opened.some /\ openedId # sealedId =>
        /\ ~opened.val.ok /\ ~opened.val.panic
        /\ opened.val.err = IF openedId.val.ok THEN Error_Cipher ELSE Error_Io
        /\ DOMAIN opened.val = {"ok", "err", "panic"}

\* the identity changed after encryption: authentication fails
C10_Witness ==
    /\ opened.some /\ openedId # sealedId /\ idChanges = 1
    /\ openedId.val = Ok(IdB) /\ sealedId.val = Ok(IdA)
    /\ opened.val = Err(Error_Cipher)

(***************************************************************************)
(* C11 as stated: every failure of secret recovery yields one and the same *)
(* error.  An authentication failure yields Error::Cipher, so one error    *)
(* for all kinds of failure would be that one.                             *)
(***************************************************************************)
C11_SingleOpaqueError ==
    \A t \in Threads :
        RecoveryFailed(t) => frame[t].pw.val.err = Error_Cipher

\* the error that each kind of failure yields
ExpectedError(t) ==
    CASE artifact = "nonce_odd_length" -> "hex: odd number of digits"
      [] artifact = "nonce_not_hex" -> "hex: invalid character"
      [] artifact = "nonce_11_bytes" -> "Invalid nonce. Must be 12 bytes long."
      [] artifact = "ciphertext_not_hex" -> "hex: invalid character"
      [] OTHER -> IF frame[t].mid.val.ok THEN Error_Cipher ELSE Error_Io

(***************************************************************************)
(* C11, amended: the failures of authentication (a machine identity other  *)
(* than the build's, a changed or a shortened ciphertext) yield the one    *)
(* error Error::Cipher; a failure to decode the hex constants, a nonce of  *)
(* the wrong length and a missing machine-id file each yield an error of   *)
(* their own, and the diagnostic of the fgets hook shows the error it got. *)
(***************************************************************************)
C11_ErrorByKind ==
    \A t \in Threads :
        RecoveryFailed(t) =>
            /\ frame[t].pw.val.err = ExpectedError(t)
            /\ pc[t] = "fgets_ret" =>
                  /\ Len(frame[t].diags) = 1
                  /\ frame[t].diags[1].err = ExpectedError(t)
            /\ artifact \in {"intact", "ciphertext_changed", "ciphertext_cut"}
                   /\ frame[t].mid.val.ok
                  => frame[t].pw.val.err = Error_Cipher

\* the machine-id files are missing: the diagnostic shows the IO error
C11_Witness ==
    \E t \in Threads :
        /\ pc[t] = "fgets_ret" /\ RecoveryFailed(t)
        /\ artifact = "intact" /\ ~frame[t].mid.val.ok
        /\ frame[t].diags[1].err = Error_Io

(***************************************************************************)
(* SpecOpen: one thread that holds several streams at a time, opened on    *)
(* the configured path and on another spelling of it, in the read-only     *)
(* mode and in others, with and without configuration.                     *)
(***************************************************************************)
OpenPaths == {"auth", "./auth"}
OpenModes == Modes \cup {"r+"}

InitOpen == InitOf({<<115>>}, {BuildMachine}, Environs)

NextOpen ==
    \/ \E rng \in {[i \in 1..NONCE_SIZE |-> i]} : BuildMain(rng)
    \/ Install("intact")
    \/ Hooks({1}, Handles, OpenPaths, OpenModes, {Standard}, {3})

SpecOpen == InitOpen /\ [][NextOpen]_vars

\* the conditions of registration, on the arguments and the result of the
\* call of fopen that t is in
Accepts(t) ==
    /\ frame[t].fn = "fopen"
    /\ frame[t].stream # NULL
    /\ environ \notin {NotPresent, NotUnicode}
    /\ frame[t].filename = environ
    /\ frame[t].mode = "r"

\* t takes a step of the hook it is in
Steps(t) == pc'[t] # pc[t]

(***************************************************************************)
(* C12: the fopen hook inserts an entry of count 0 under the handle that   *)
(* the original returned when that handle is not NULL, AUTH_FILE_PATH is   *)
(* set, the path argument equals it as a string and the mode is "r"; in    *)
(* every other case no step of the hook changes the registry.              *)
(***************************************************************************)
C12_RegistersIff ==
    /\ [](\A t \in Threads :
            pc[t] = "fopen_ret" /\ frame[t].stream # NULL =>
                IF Accepts(t)
                THEN /\ frame[t].stream \in DOMAIN OPEN_FILES
                     /\ OPEN_FILES[frame[t].stream] = [lines |-> 0]
                ELSE frame[t].stream \notin DOMAIN OPEN_FILES)
    /\ [][\A t \in Threads :
            frame[t].fn = "fopen" /\ Steps(t) =>
                IF Accepts(t) /\ pc[t] = "add_insert"
                THEN OPEN_FILES' =
                        [k \in DOMAIN OPEN_FILES \cup {frame[t].stream} |->
                            IF k = frame[t].stream THEN [lines |-> 0]
                            ELSE OPEN_FILES[k]]
                ELSE OPEN_FILES' = OPEN_FILES]_vars

\* another spelling of the configured path, opened read-only while a
\* target stream is tracked: not registered
C12_Witness ==
    \E t \in Threads :
        /\ pc[t] = "fopen_ret" /\ frame[t].stream # NULL
        /\ frame[t].filename = "./auth" /\ frame[t].mode = "r"
        /\ environ = "auth"
        /\ frame[t].stream \notin DOMAIN OPEN_FILES
        /\ DOMAIN OPEN_FILES # {}

(***************************************************************************)
(* C13: when the fclose hook is about to call the original fclose, it has  *)
(* not called it before and the handle is not in the registry, tracked or  *)
(* not before; once the original has run, with either status, an entry     *)
(* under the handle can only be that of a newer stream that libc gave the  *)
(* same handle.                                                            *)
(***************************************************************************)
C13_RemoveBeforeForward ==
    \A t \in Threads :
        frame[t].fn = "fclose" =>
            /\ pc[t] = "fclose_orig" =>
                  /\ frame[t].stream \notin DOMAIN OPEN_FILES
                  /\ frame[t].calls = <<>>
            /\ frame[t].calls # <<>> => pc[t] = "fclose_ret"
            /\ pc[t] = "fclose_ret" =>
                  \/ frame[t].stream \notin DOMAIN OPEN_FILES
                  \/ /\ streams[frame[t].stream].open
                     /\ streams[frame[t].stream].owner # t

\* a tracked target stream is being closed: its entry is gone before the
\* original fclose runs, the entry of the other stream stays
C13_Witness ==
    \E t \in Threads :
        /\ pc[t] = "fclose_orig"
        /\ IsTarget(frame[t].stream)
        /\ Len(streams[frame[t].stream].hist) = 2
        /\ frame[t].stream \notin DOMAIN OPEN_FILES
        /\ DOMAIN OPEN_FILES # {}

(***************************************************************************)
(* C14: a thread holds the lock of the registry exactly while it is at its *)
(* one map operation (insert, get_mut and inc, remove), and its next step  *)
(* releases the lock: no thread holds it while an original fopen, fgets or *)
(* fclose runs, while the secret is recovered, while the buffer is         *)
(* overwritten or while a diagnostic is written.                           *)
(***************************************************************************)
MapOps == {"add_insert", "inc_op", "remove_op"}

C14_LockOnlyForMapOp ==
    /\ [](/\ lock \in Threads \cup {NoThread}
          /\ \A t \in Threads : lock = t <=> pc[t] \in MapOps)
    /\ [][\A t \in Threads : lock = t /\ Steps(t) => lock' = NoThread]_vars

\* one thread recovers the secret while another holds the lock for inc
C14_Witness ==
    \E t \in Threads, u \in Threads :
        /\ lock = t /\ pc[t] = "inc_op"
        /\ pc[u] = "password_line"

(***************************************************************************)
(* C15: the fgets hook calls State::inc_lines once in a call whose         *)
(* original returned non-null and not at all when it returned NULL: the    *)
(* count of a tracked stream is the saturated number of non-null results   *)
(* of the original on it since its registration, and a read that returns   *)
(* NULL leaves the count and the buffer as they were.                      *)
(***************************************************************************)
\* t is in a call of fgets and past its State::inc_lines
Done(t) ==
    /\ frame[t].fn = "fgets" /\ frame[t].response # NULL
    /\ pc[t] \in {"password_line", "match_pw", "fgets_ret"}

\* the non-null results of the original fgets on h that the hook has seen
NonNull(h) ==
    Len(streams[h].hist)
      + (IF \E t \in Threads : frame[t].stream = h /\ Done(t) THEN 1 ELSE 0)

C15_OncePerNonNull ==
    /\ \A h \in Handles :
          Registered(h) =>
              /\ h \in DOMAIN OPEN_FILES
              /\ OPEN_FILES[h].lines = Min(USIZE_MAX, NonNull(h))
    /\ \A t \in Threads :
          /\ Done(t) /\ Registered(frame[t].stream) =>
                frame[t].cnt = Some(OPEN_FILES[frame[t].stream].lines)
          /\ frame[t].fn = "fgets" /\ pc[t] = "fgets_ret"
                /\ frame[t].response = NULL =>
                    /\ frame[t].cnt = None
                    /\ frame[t].buf = frame[t].orig
                    /\ frame[t].diags = <<>>

\* a read of a tracked stream fails after line 1 was read: NULL, count 1
C15_Witness ==
    \E t \in Threads :
        /\ frame[t].fn = "fgets" /\ pc[t] = "fgets_ret"
        /\ frame[t].response = NULL /\ frame[t].n = 3
        /\ Registered(frame[t].stream)
        /\ streams[frame[t].stream].hist = <<2>>
        /\ streams[frame[t].stream].pos < Len(streams[frame[t].stream].content)
        /\ OPEN_FILES[frame[t].stream].lines = 1

(***************************************************************************)
(* C16: the secret is recovered and written in the second non-null read of *)
(* a tracked stream and in no other read, wherever in the file that read   *)
(* starts: when line 1 comes in fragments, the second fragment is replaced *)
(* and the reads after it, line 2 of the file among them, are delivered as *)
(* the original read them.                                                 *)
(***************************************************************************)
C16_KeyedOnReads ==
    \A t \in Threads :
        Returning(t) /\ IsTarget(frame[t].stream) =>
            /\ frame[t].pw.some <=> ReadIndex(t) = 2
            /\ ReadIndex(t) # 2 => frame[t].buf = frame[t].orig
            /\ ReadIndex(t) = 2 =>
                  IF frame[t].pw.val.ok /\ Fits(t)
                  THEN Delivered(t) = SecretLine
                  ELSE frame[t].buf = frame[t].orig

\* "uu\np\n" read with capacity 3: the second read holds the newline of
\* line 1 and is delivered as the secret
C16_Witness ==
    \E t \in Threads :
        /\ Returning(t) /\ IsTarget(frame[t].stream)
        /\ streams[frame[t].stream].content = <<117, 117, 10, 112, 10>>
        /\ streams[frame[t].stream].hist = <<2>>
        /\ frame[t].n = 3 /\ Original(t) = <<NL>>
        /\ ReadLine(t) = 1
        /\ Delivered(t) = SecretLine

(***************************************************************************)
(* SpecReplace: replace_line on its own, called with every capacity, every *)
(* replacement line and every buffer of at least the capacity.             *)
(***************************************************************************)
MaxBuf == 4     \* bytes of the longest buffer

\* the buffers of at least n and at most MaxBuf bytes, as a read left them
Buffers(n) ==
    UNION {[1..len -> {Filler, 120}] : len \in Max(n, 0)..MaxBuf}

\* the lines password_line can return: the passwords, and the empty one
NewLines == {pw \o <<NL>> : pw \in Passwords \cup {<<>>}}

ReplaceCall(t, buf, n, new_line) ==
    /\ phase = "replace"
    /\ LET r == replace_line(buf, n, new_line)
       IN  frame' = [frame EXCEPT ![t] =
                        [NoFrame EXCEPT !.fn = "replace_line", !.n = n,
                                        !.orig = buf, !.buf = r.buf,
                                        !.pw = Some(Ok(new_line)),
                                        !.diags = r.diags]]
    /\ UNCHANGED <<hookFrame, AUTH_FILE_PATH, OPEN_FILES, lock, streams, pc>>

InitReplace ==
    /\ phase = "replace"
    /\ password = <<>>
    /\ environ = NotPresent
    /\ plaintext = <<>>
    /\ InitCommon({BuildMachine})

NextReplace ==
    \E n \in Caps, new_line \in NewLines :
        \E buf \in Buffers(n) : ReplaceCall(1, buf, n, new_line)

SpecReplace == InitReplace /\ [][NextReplace]_vars

(***************************************************************************)
(* C17: for every capacity, zero and negative ones too, replace_line       *)
(* either leaves the buffer as it was and writes the warning, or writes    *)
(* the whole replacement (line, newline, NUL) at the start of the buffer;  *)
(* it writes no byte at an offset at or past the capacity and no byte      *)
(* after the NUL, and a negative capacity is no space at all.              *)
(***************************************************************************)
C17_BoundedCopy ==
    \A t \in Threads :
        frame[t].fn = "replace_line" =>
            LET f == frame[t]
                src == f.pw.val.val \o <<NUL>>
                fits == Len(src) <= f.n
            IN  /\ Len(f.buf) = Len(f.orig)
                /\ IF fits
                   THEN /\ SubSeq(f.buf, 1, Len(src)) = src
                        /\ f.diags = <<>>
                   ELSE /\ f.buf = f.orig
                        /\ f.diags = <<TooLong(Len(src), Max(f.n, 0))>>
                /\ \A i \in 1..Len(f.buf) :
                      i > Max(f.n, 0) \/ i > Len(src) => f.buf[i] = f.orig[i]
                /\ f.n < 0 => /\ f.buf = f.orig
                              /\ f.diags[1].available_space = 0

\* a capacity of -1 and a buffer of three bytes: nothing is written
C17_Witness ==
    \E t \in Threads :
        /\ frame[t].fn = "replace_line" /\ frame[t].n = -1
        /\ Len(frame[t].orig) = 3 /\ frame[t].buf = frame[t].orig
        /\ frame[t].pw.val.val = <<115, NL>>
        /\ frame[t].diags = <<TooLong(3, 0)>>

(***************************************************************************)
(* C18: on a stream that is not in the registry, State::inc_lines returns  *)
(* None and State::remove does nothing: the registry is the same after the *)
(* step, no diagnostic is written, and the fgets hook goes on to return    *)
(* the buffer as the original left it, without recovering the secret.      *)
(***************************************************************************)
C18_UntrackedNoOp ==
    /\ [][\A t \in Threads :
            Steps(t) /\ frame[t].stream \notin DOMAIN OPEN_FILES =>
                /\ pc[t] = "inc_op" =>
                      /\ OPEN_FILES' = OPEN_FILES
                      /\ frame'[t].cnt = None
                      /\ frame'[t].diags = <<>>
                      /\ pc'[t] = "fgets_ret"
                /\ pc[t] = "remove_op" =>
                      /\ OPEN_FILES' = OPEN_FILES
                      /\ frame'[t].diags = <<>>
                      /\ pc'[t] = "fclose_orig"]_vars
    /\ [](\A t \in Threads :
            frame[t].fn = "fgets" /\ pc[t] = "fgets_ret"
                /\ frame[t].cnt = None =>
                    /\ frame[t].buf = frame[t].orig
                    /\ ~frame[t].pw.some)

\* the second line of a stream that is not tracked is returned while a
\* target stream, read once, is tracked
C18_Witness ==
    \E t \in Threads, h \in Handles :
        /\ Returning(t) /\ frame[t].cnt = None
        /\ frame[t].stream \notin DOMAIN OPEN_FILES
        /\ streams[frame[t].stream].hist = <<2>>
        /\ h \in DOMAIN OPEN_FILES /\ OPEN_FILES[h].lines = 1
        /\ DOMAIN OPEN_FILES = {h}

(***************************************************************************)
(* SpecStale: one thread whose host also closes streams by calls of libc   *)
(* that the library does not replace (fcloseall, freopen): their entries   *)
(* stay in the registry, and libc hands their FILE out again.              *)
(***************************************************************************)
CloseUnhooked(t, h) ==
    /\ phase = "run"
    /\ pc[t] = "idle"
    /\ streams[h].open /\ streams[h].owner = t
    /\ streams' = [streams EXCEPT ![h] = Closed]
    /\ UNCHANGED <<hookFrame, AUTH_FILE_PATH, OPEN_FILES, lock, pc, frame>>

InitStale == InitOf({<<115>>}, {BuildMachine}, {"auth"})

NextStale ==
    \/ \E rng \in {[i \in 1..NONCE_SIZE |-> i]} : BuildMain(rng)
    \/ Install("intact")
    \/ Hooks({1}, Handles, {"auth"}, {"r"}, {Standard}, {3})
    \/ \E h \in Handles : CloseUnhooked(1, h)

SpecStale == InitStale /\ [][NextStale]_vars

AlreadyInMap == Diag("WARNING", "Stream was already in the map")

(***************************************************************************)
(* C19: State::add on a stream that is in the registry puts a count of 0   *)
(* in place of its entry and changes no other entry; the fopen hook then   *)
(* writes one warning, returns the stream, and the host runs on; the       *)
(* second non-null read of the stream delivers the secret.                 *)
(***************************************************************************)
C19_DuplicateOverwrites ==
    /\ [][\A t \in Threads :
            Steps(t) /\ pc[t] = "add_insert"
                /\ frame[t].stream \in DOMAIN OPEN_FILES =>
                    /\ OPEN_FILES' =
                          [OPEN_FILES EXCEPT ![frame[t].stream] = [lines |-> 0]]
                    /\ frame'[t].prev = Some(OPEN_FILES[frame[t].stream])
                    /\ phase' = "run"]_vars
    /\ [](\A t \in Threads :
            /\ frame[t].fn = "fopen" /\ frame[t].prev.some =>
                  /\ phase = "run"
                  /\ frame[t].response = frame[t].stream
                  /\ pc[t] \in {"add_warn", "fopen_ret"}
                  /\ pc[t] = "add_warn" => frame[t].diags = <<>>
                  /\ pc[t] = "fopen_ret" => frame[t].diags = <<AlreadyInMap>>
            /\ frame[t].fn = "fopen" /\ ~frame[t].prev.some =>
                  frame[t].diags = <<>>
            /\ Returning(t) /\ IsTarget(frame[t].stream) =>
                  /\ frame[t].pw.some <=> ReadIndex(t) = 2
                  /\ ReadIndex(t) = 2 => Delivered(t) = SecretLine)

\* a stream gets the handle of one that was read twice and closed past the
\* hook: its entry goes from 2 to 0, the entry of the other stream stays
C19_Witness ==
    \E t \in Threads, h \in Handles :
        /\ pc[t] = "fopen_ret" /\ frame[t].prev = Some([lines |-> 2])
        /\ OPEN_FILES[frame[t].stream] = [lines |-> 0]
        /\ frame[t].diags = <<AlreadyInMap>>
        /\ h # frame[t].stream /\ h \in DOMAIN OPEN_FILES
        /\ OPEN_FILES[h].lines = 1

(***************************************************************************)
(* C20: with every close going through the fclose hook and libc free to    *)
(* hand a FILE out again once the original fclose has run, every key of    *)
(* the registry is a stream that is open, was opened on the configured     *)
(* path with mode "r", and whose count is that of its own reads; a stream  *)
(* that is open and no target is not in the registry, a close removes the  *)
(* entry of the stream it closes, and State::add never finds a previous    *)
(* entry.                                                                  *)
(***************************************************************************)
C20_EntriesAreOpenTargets ==
    /\ \A h \in DOMAIN OPEN_FILES :
          /\ h \in Handles
          /\ IsTarget(h)
          /\ OPEN_FILES[h].lines = Min(USIZE_MAX, NonNull(h))
    /\ \A h \in Handles :
          streams[h].open /\ ~IsTarget(h) => h \notin DOMAIN OPEN_FILES
    /\ \A t \in Threads :
          /\ ~frame[t].prev.some
          /\ pc[t] \in {"remove_lock", "remove_op"} =>
                /\ streams[frame[t].stream].open
                /\ streams[frame[t].stream].owner = t

\* a thread has closed a stream and not yet returned; another thread has
\* got the same handle for a file that is no target: it is not tracked
C20_Witness ==
    \E t \in Threads, h \in Handles :
        /\ pc[t] = "fclose_ret" /\ frame[t].stream = h
        /\ streams[h].open /\ streams[h].owner # t
        /\ streams[h].path = "other" /\ streams[h].hist = <<2>>
        /\ h \notin DOMAIN OPEN_FILES
        /\ DOMAIN OPEN_FILES # {}

(***************************************************************************)
(* SpecRetry: one thread reads one stream again and again, with buffers    *)
(* that have room for the secret line and buffers that have not, on the    *)
(* build machine or another one; the host closes the stream through the    *)
(* hook or past it, and opens it again on the same FILE.                   *)
(***************************************************************************)
RetryCaps == {1, 2, 3}

InitRetry == InitOf({<<115>>}, {BuildMachine}, {"auth"})

NextRetry ==
    \/ \E rng \in {[i \in 1..NONCE_SIZE |-> i]} : BuildMain(rng)
    \/ Install("intact")
    \/ ChangeMachineId(OtherMachine)
    \/ Hooks({1}, {1}, {"auth"}, {"r"}, {Standard}, RetryCaps)
    \/ \E h \in {1} : CloseUnhooked(1, h)

SpecRetry == InitRetry /\ [][NextRetry]_vars

\* the step is State::add's insert for stream h
Registers(h) ==
    \E t \in Threads :
        Steps(t) /\ pc[t] = "add_insert" /\ frame[t].stream = h

\* the step is params::password_line() called by thread t
Recovers(t) == Steps(t) /\ pc[t] = "password_line"

(***************************************************************************)
(* C21: while a stream stays registered, with no release and no new        *)
(* registration in between, its count never decreases, moves by at most 1  *)
(* per step and stops at usize::MAX; the hook goes on to recover the       *)
(* secret in exactly the steps that take the count from 1 to 2, and the    *)
(* secret is recovered nowhere else.  So recovery runs in the read after   *)
(* the first counted one and in no other: a read that finds the count      *)
(* past 2, or a stream that is not tracked, returns the buffer as the      *)
(* original left it and writes nothing, also when the substitution of the  *)
(* second read was skipped for lack of space or failed in recovery.        *)
(***************************************************************************)
C21_RecoveryAtMostOnce ==
    /\ [][/\ \A h \in Handles :
                h \in DOMAIN OPEN_FILES /\ h \in DOMAIN OPEN_FILES'
                    /\ ~Registers(h) =>
                        /\ OPEN_FILES'[h].lines >= OPEN_FILES[h].lines
                        /\ OPEN_FILES'[h].lines <= OPEN_FILES[h].lines + 1
                        /\ OPEN_FILES'[h].lines <= USIZE_MAX
                        /\ OPEN_FILES[h].lines >= PASSWORD_LINE_NUMBER
                              /\ OPEN_FILES'[h].lines # OPEN_FILES[h].lines =>
                                  OPEN_FILES'[h].lines > PASSWORD_LINE_NUMBER
          /\ \A t \in Threads :
                /\ Steps(t) /\ pc'[t] = "password_line" <=>
                      /\ pc[t] = "inc_op"
                      /\ frame[t].stream \in DOMAIN OPEN_FILES
                      /\ OPEN_FILES[frame[t].stream].lines
                            = PASSWORD_LINE_NUMBER - 1
                      /\ OPEN_FILES'[frame[t].stream].lines
                            = PASSWORD_LINE_NUMBER
                /\ frame'[t].pw # frame[t].pw /\ frame'[t].pw.some =>
                      Recovers(t)]_vars
    /\ [](\A t \in Threads :
            frame[t].fn = "fgets" =>
                /\ frame[t].pw.some \/ pc[t] \in {"password_line", "match_pw"} =>
                      /\ frame[t].cnt = Some(PASSWORD_LINE_NUMBER)
                      /\ Len(streams[frame[t].stream].hist) = 1
                /\ pc[t] = "fgets_ret"
                      /\ frame[t].cnt # Some(PASSWORD_LINE_NUMBER) =>
                          /\ ~frame[t].pw.some
                          /\ frame[t].buf = frame[t].orig
                          /\ frame[t].diags = <<>>
                /\ frame[t].cnt.some
                      /\ Len(streams[frame[t].stream].hist) >= PASSWORD_LINE_NUMBER =>
                          frame[t].cnt.val > PASSWORD_LINE_NUMBER)

\* "u\n" was read, then "p" into a buffer of 2 bytes, which has no room for
\* the secret line, then nothing into a buffer of 1 byte; the fourth read
\* has room, finds the count at usize::MAX and returns the newline it read
C21_Witness ==
    \E t \in Threads :
        /\ Returning(t) /\ IsTarget(frame[t].stream)
        /\ streams[frame[t].stream].hist = <<2, 1, 0>>
        /\ frame[t].n = 3 /\ Fits(t)
        /\ frame[t].cnt = Some(USIZE_MAX)
        /\ OPEN_FILES[frame[t].stream].lines = USIZE_MAX
        /\ Original(t) = <<NL>> /\ Delivered(t) = Original(t)
        /\ ~frame[t].pw.some

(***************************************************************************)
(* SpecLive: the threads of the host against each other on two streams,    *)
(* under a scheduler that lets every thread run that can, originals that   *)
(* return, and a lock that a thread which keeps asking for it gets.        *)
(***************************************************************************)
LiveHandles == {1, 2}

\* the forwarded calls of thread t: Functions::fopen, ::fgets, ::fclose
Forwarded(t) ==
    \/ \E h \in LiveHandles \cup {NULL} : FopenOrig(t, h, Standard)
    \/ FgetsOrig(t)
    \/ FcloseOrig(t)

\* OPEN_FILES.lock() of thread t, in State::add, ::inc_lines and ::remove
Locks(t) == AddLock(t) \/ IncLock(t) \/ RemoveLock(t)

\* thread t is in params::password_line(): PasswordLine(t) is enabled in
\* exactly these states, and every step of it leaves them
Recovering(t) == phase = "run" /\ pc[t] = "password_line"

\* every other step of a hook that thread t is in
Own(t) ==
    \/ FopenCheck(t) \/ AddInsert(t) \/ AddWarn(t) \/ FopenRet(t)
    \/ IncOp(t) \/ MatchPw(t) \/ FgetsRet(t)
    \/ RemoveOp(t) \/ FcloseRet(t)

NextLive ==
    \/ \E rng \in {[i \in 1..NONCE_SIZE |-> i]} : BuildMain(rng)
    \/ Install("intact")
    \/ Hooks(Threads, LiveHandles, Paths, {"r"}, {Standard}, {3})

\* the last conjunct is WF_vars(PasswordLine(t)), written by its meaning:
\* the thread is not for ever in params::password_line()
Fairness ==
    \A t \in Threads :
        /\ WF_vars(Forwarded(t))
        /\ WF_vars(Own(t))
        /\ SF_vars(Locks(t))
        /\ []<>~Recovering(t)

SpecLive == Init /\ [][NextLive]_vars /\ Fairness

\* the positions of a thread at OPEN_FILES.lock()
LockWaits == {"add_lock", "inc_lock", "remove_lock"}

\* thread t is in a call of a hook
InHook(t) == pc[t] # "idle"

(***************************************************************************)
(* C22: with any of the threads in the hooks at once, a thread asks for    *)
(* the lock of the registry only while it does not hold it, and a thread   *)
(* that holds it is at its map operation, which it can take; a thread in a *)
(* hook that is not asking for the lock can always take its next step, and *)
(* a thread that asks for a lock that is free can take it: no state has    *)
(* threads in hooks of which none can move, and the host is never aborted. *)
(* With originals that return and a lock that is granted fairly, every     *)
(* call of a hook returns.                                                 *)
(***************************************************************************)
C22_HooksReturn ==
    /\ [](\A t \in Threads :
            /\ pc[t] \in LockWaits => lock # t
            /\ lock = t => pc[t] \in MapOps /\ ENABLED Own(t)
            /\ InHook(t) => phase = "run"
            /\ InHook(t) /\ pc[t] \notin LockWaits \cup {"password_line"} =>
                  ENABLED (Own(t) \/ Forwarded(t))
            /\ pc[t] = "password_line" => Recovering(t)
            /\ pc[t] \in LockWaits /\ lock = NoThread => ENABLED Locks(t))
    /\ \A t \in Threads : InHook(t) ~> ~InHook(t)

\* one thread waits for the lock in its read while another holds it for the
\* registration of a second stream, and the first stream is tracked
C22_Witness ==
    \E t \in Threads, u \in Threads :
        /\ pc[t] = "inc_lock" /\ pc[u] = "add_insert" /\ lock = u
        /\ frame[t].stream # frame[u].stream
        /\ frame[t].stream \in DOMAIN OPEN_FILES

====
